---------------------------- MODULE Spec2Model ----------------------------
(***************************************************************************)
(* Model of the Dynamic Curriculum Graph: the CurriculumManager            *)
(* (curriculum_manager.py), the agent pipeline (agent_core.py) and the     *)
(* module-attempt flow of the Streamlit page (app.py).                     *)
(*                                                                         *)
(* Python values are modelled as follows.  A dict is a function whose      *)
(* DOMAIN is its key set; a list is a sequence; a set is a set.  None is   *)
(* the reserved string NoneVal, which is never a key or a label.  A label  *)
(* is a sequence of words, so that string concatenation is \o and          *)
(* "starts with" is a comparison of a prefix.                              *)
(***************************************************************************)
EXTENDS Integers, Sequences, FiniteSets, TLC

VARIABLES
    nodes,              \* CurriculumManager.nodes: id -> [label, status]
    adjacency,          \* CurriculumManager.adjacency: id -> list of ids
    reverse_adjacency,  \* CurriculumManager.reverse_adjacency: id -> list of ids
    completed_nodes,    \* CurriculumManager.completed_nodes
    topic,              \* CurriculumManager.topic
    context,            \* CurriculumManager.context
    graph_data,         \* the graph proposal the architect returns in this session
    call,               \* the last manager call: its name and how it ended
    pc,                 \* where the page is: "idle" between handlers, or inside one
    current_node,       \* st.session_state.current_node
    current_content,    \* st.session_state.current_content
    futures,            \* the three futures of parallel_content_generation
    verifier,           \* the audit request of parallel_content_generation
    generation,         \* how the last parallel_content_generation call ended
    submitted,          \* the locals of the quiz submission being handled
    db,                 \* whether init_firebase gave the session a storage client
    persisted,          \* the session document of the topic in the store, or None
    save_outcome        \* how the save of the last handler that may save ended

mgr == <<nodes, adjacency, reverse_adjacency, completed_nodes, topic, context>>

app == <<pc, current_node, current_content, futures, verifier, generation, submitted>>

store == <<db, persisted, save_outcome>>

vars == <<nodes, adjacency, reverse_adjacency, completed_nodes, topic, context,
          graph_data, call, pc, current_node, current_content, futures, verifier,
          generation, submitted, db, persisted, save_outcome>>

-----------------------------------------------------------------------------
(* Bounds and domains *)

MaxEdges == 2

NoneVal == "<None>"

NodeIds == {"a", "b"}

\* an id that is never a node: an argument of mark_completed or an injection target
UnknownId == "x"

\* the id a remediation candidate may carry that no graph proposal uses
RemedialId == "r"

Label(w) == <<w>>

Topics == {"", "Graph Theory"}

Contexts == {"Undergraduate"}

\* dict.get(key, default)
Get(d, k, default) == IF k \in DOMAIN d THEN d[k] ELSE default

\* Python truthiness of a string-or-None value
Falsy(v) == v = NoneVal \/ v = ""

SeqsUpTo(S, n) == UNION {[1..k -> S] : k \in 0..n}

\* an edge names two ids of NodeIds; one of them is unknown to the loaded graph
\* whenever the node list of the proposal leaves it out
EdgeRecs == [source : NodeIds, target : NodeIds]

\* a list holding the ids of S once each
RECURSIVE SetToSeq(_)
SetToSeq(S) ==
    IF S = {} THEN <<>>
    ELSE LET x == CHOOSE y \in S : TRUE IN <<x>> \o SetToSeq(S \ {x})

NodeRec(i) == [id |-> i, label |-> Label(i)]

NodeLists == {[k \in 1..Len(SetToSeq(S)) |-> NodeRec(SetToSeq(S)[k])] : S \in SUBSET NodeIds}

\* the graph proposals of the architect: {nodes: [{id, label}], edges: [{source, target}]}
GraphProposals == [nodes : NodeLists, edges : SeqsUpTo(EdgeRecs, MaxEdges)]

-----------------------------------------------------------------------------
(* CurriculumManager *)

\* _update_node_statuses with all(...) replaced by any(...)
update_node_statuses_any(ns, radj, comp) ==
    [n \in DOMAIN ns |->
        IF n \in comp THEN [ns[n] EXCEPT !.status = "COMPLETED"]
        ELSE LET prereqs == Get(radj, n, <<>>) IN
             IF prereqs = <<>> THEN [ns[n] EXCEPT !.status = "AVAILABLE"]
             ELSE LET any_met == \E i \in 1..Len(prereqs) : prereqs[i] \in comp IN
                  [ns[n] EXCEPT !.status = IF any_met THEN "AVAILABLE" ELSE "LOCKED"]]

\* _update_node_statuses without the all_met test of lines 79-80: a node that
\* has prerequisites is LOCKED
update_node_statuses_no_unlock(ns, radj, comp) ==
    [n \in DOMAIN ns |->
        IF n \in comp THEN [ns[n] EXCEPT !.status = "COMPLETED"]
        ELSE LET prereqs == Get(radj, n, <<>>) IN
             IF prereqs = <<>> THEN [ns[n] EXCEPT !.status = "AVAILABLE"]
             ELSE [ns[n] EXCEPT !.status = "LOCKED"]]

\* _update_node_statuses: the node map with every status recomputed
update_node_statuses(ns, radj, comp) ==
    [n \in DOMAIN ns |->
        IF n \in comp THEN [ns[n] EXCEPT !.status = "COMPLETED"]
        ELSE LET prereqs == Get(radj, n, <<>>) IN
             IF prereqs = <<>> THEN [ns[n] EXCEPT !.status = "AVAILABLE"]
             ELSE LET all_met == \A i \in 1..Len(prereqs) : prereqs[i] \in comp IN
                  [ns[n] EXCEPT !.status = IF all_met THEN "AVAILABLE" ELSE "LOCKED"]]

\* the node loop of load_from_json: later entries overwrite earlier ones
RECURSIVE LoadNodes(_, _)
LoadNodes(list, ns) ==
    IF list = <<>> THEN ns
    ELSE LET node == Head(list) IN
         LoadNodes(Tail(list),
                   [i \in DOMAIN ns \cup {node.id} |->
                       IF i = node.id THEN [label |-> node.label, status |-> "LOCKED"]
                       ELSE ns[i]])

\* the edge loop of load_from_json on the pair <<adjacency, reverse_adjacency>>
RECURSIVE LoadEdges(_, _, _)
LoadEdges(list, ids, maps) ==
    IF list = <<>> THEN maps
    ELSE LET src == Head(list).source
             tgt == Head(list).target
         IN  LoadEdges(Tail(list), ids,
                       IF src \in ids /\ tgt \in ids
                       THEN << [maps[1] EXCEPT ![src] = Append(@, tgt)],
                               [maps[2] EXCEPT ![tgt] = Append(@, src)] >>
                       ELSE maps)

\* load_from_json without the reset of line 46
load_from_json_keep_completed(t, c) ==
    LET ns    == LoadNodes(graph_data.nodes, <<>>)
        empty == [i \in DOMAIN ns |-> <<>>]
        maps  == LoadEdges(graph_data.edges, DOMAIN ns, <<empty, empty>>)
    IN  /\ nodes' = update_node_statuses(ns, maps[2], completed_nodes)
        /\ adjacency' = maps[1]
        /\ reverse_adjacency' = maps[2]
        /\ completed_nodes' = completed_nodes
        /\ topic' = t
        /\ context' = c
        /\ call' = [op |-> "load_from_json", ret |-> "None"]
        /\ UNCHANGED graph_data

load_from_json(t, c) ==
    LET ns    == LoadNodes(graph_data.nodes, <<>>)
        empty == [i \in DOMAIN ns |-> <<>>]
        maps  == LoadEdges(graph_data.edges, DOMAIN ns, <<empty, empty>>)
    IN  /\ nodes' = update_node_statuses(ns, maps[2], {})
        /\ adjacency' = maps[1]
        /\ reverse_adjacency' = maps[2]
        /\ completed_nodes' = {}
        /\ topic' = t
        /\ context' = c
        /\ call' = [op |-> "load_from_json", ret |-> "None"]
        /\ UNCHANGED graph_data

\* mark_completed without the recompute of line 85
mark_completed_stale(node_id) ==
    /\ IF node_id \in DOMAIN nodes
       THEN /\ completed_nodes' = completed_nodes \cup {node_id}
            /\ nodes' = nodes
       ELSE UNCHANGED <<nodes, completed_nodes>>
    /\ call' = [op |-> "mark_completed", ret |-> "None"]
    /\ UNCHANGED <<adjacency, reverse_adjacency, topic, context, graph_data>>

\* mark_completed assigning the set instead of adding to it
mark_completed_reset(node_id) ==
    /\ IF node_id \in DOMAIN nodes
       THEN /\ completed_nodes' = {node_id}
            /\ nodes' = update_node_statuses(nodes, reverse_adjacency, {node_id})
       ELSE UNCHANGED <<nodes, completed_nodes>>
    /\ call' = [op |-> "mark_completed", ret |-> "None"]
    /\ UNCHANGED <<adjacency, reverse_adjacency, topic, context, graph_data>>

mark_completed(node_id) ==
    /\ IF node_id \in DOMAIN nodes
       THEN /\ completed_nodes' = completed_nodes \cup {node_id}
            /\ nodes' = update_node_statuses(nodes, reverse_adjacency,
                                             completed_nodes \cup {node_id})
       ELSE UNCHANGED <<nodes, completed_nodes>>
    /\ call' = [op |-> "mark_completed", ret |-> "None"]
    /\ UNCHANGED <<adjacency, reverse_adjacency, topic, context, graph_data>>

NoneLabel == <<NoneVal>>

\* the remedial_data dicts handed to inject_remedial_node: the id is one of
\* the map, the unused id, the empty string, or missing
RemedialData ==
    {[remedial_node_id |-> i, remedial_node_label |-> Label("R")] :
        i \in DOMAIN nodes \cup {RemedialId, ""}}
    \cup {[remedial_node_label |-> Label("R")]}

\* inject_remedial_node with line 104 appending to the list of the new node
InjectResult_no_reverse_edge(failed_node_id, remedial_data) ==
    LET new_id    == Get(remedial_data, "remedial_node_id", NoneVal)
        new_label == Get(remedial_data, "remedial_node_label", NoneLabel)
        same      == [nodes |-> nodes, adjacency |-> adjacency,
                      reverse_adjacency |-> reverse_adjacency]
        ids1      == DOMAIN nodes \cup {new_id}
        nodes1    == [i \in ids1 |-> IF i = new_id
                                     THEN [label |-> new_label, status |-> "AVAILABLE"]
                                     ELSE nodes[i]]
        adj1      == [i \in ids1 |-> IF i = new_id THEN <<failed_node_id>>
                                     ELSE adjacency[i]]
        radj1     == [i \in ids1 |-> IF i = new_id THEN <<>>
                                     ELSE reverse_adjacency[i]]
        radj2     == [radj1 EXCEPT ![new_id] = Append(@, failed_node_id)]
        nodes2    == IF failed_node_id \in DOMAIN nodes1
                     THEN [nodes1 EXCEPT ![failed_node_id].status = "LOCKED"]
                     ELSE nodes1
    IN  IF Falsy(new_id) \/ new_id \in DOMAIN nodes
        THEN same @@ [ret |-> "False"]
        ELSE IF failed_node_id \notin DOMAIN radj1
        THEN [nodes |-> nodes1, adjacency |-> adj1, reverse_adjacency |-> radj1,
              ret |-> "raised"]
        ELSE [nodes |-> update_node_statuses(nodes2, radj2, completed_nodes),
              adjacency |-> adj1, reverse_adjacency |-> radj2, ret |-> "True"]

\* inject_remedial_node without the test of line 92 for an id already in the map
InjectResult_overwrite(failed_node_id, remedial_data) ==
    LET new_id    == Get(remedial_data, "remedial_node_id", NoneVal)
        new_label == Get(remedial_data, "remedial_node_label", NoneLabel)
        same      == [nodes |-> nodes, adjacency |-> adjacency,
                      reverse_adjacency |-> reverse_adjacency]
        ids1      == DOMAIN nodes \cup {new_id}
        nodes1    == [i \in ids1 |-> IF i = new_id
                                     THEN [label |-> new_label, status |-> "AVAILABLE"]
                                     ELSE nodes[i]]
        adj1      == [i \in ids1 |-> IF i = new_id THEN <<failed_node_id>>
                                     ELSE adjacency[i]]
        radj1     == [i \in ids1 |-> IF i = new_id THEN <<>>
                                     ELSE reverse_adjacency[i]]
        radj2     == [radj1 EXCEPT ![failed_node_id] = Append(@, new_id)]
        nodes2    == IF failed_node_id \in DOMAIN nodes1
                     THEN [nodes1 EXCEPT ![failed_node_id].status = "LOCKED"]
                     ELSE nodes1
    IN  IF Falsy(new_id)
        THEN same @@ [ret |-> "False"]
        ELSE IF failed_node_id \notin DOMAIN radj1
        THEN [nodes |-> nodes1, adjacency |-> adj1, reverse_adjacency |-> radj1,
              ret |-> "raised"]
        ELSE [nodes |-> update_node_statuses(nodes2, radj2, completed_nodes),
              adjacency |-> adj1, reverse_adjacency |-> radj2, ret |-> "True"]

\* the manager fields after inject_remedial_node(failed_node_id, remedial_data),
\* with ret the value returned, or "raised" when line 104 raises KeyError
InjectResult(failed_node_id, remedial_data) ==
    LET new_id    == Get(remedial_data, "remedial_node_id", NoneVal)
        new_label == Get(remedial_data, "remedial_node_label", NoneLabel)
        same      == [nodes |-> nodes, adjacency |-> adjacency,
                      reverse_adjacency |-> reverse_adjacency]
        ids1      == DOMAIN nodes \cup {new_id}
        nodes1    == [i \in ids1 |-> IF i = new_id
                                     THEN [label |-> new_label, status |-> "AVAILABLE"]
                                     ELSE nodes[i]]
        adj1      == [i \in ids1 |-> IF i = new_id THEN <<failed_node_id>>
                                     ELSE adjacency[i]]
        radj1     == [i \in ids1 |-> IF i = new_id THEN <<>>
                                     ELSE reverse_adjacency[i]]
        radj2     == [radj1 EXCEPT ![failed_node_id] = Append(@, new_id)]
        nodes2    == IF failed_node_id \in DOMAIN nodes1
                     THEN [nodes1 EXCEPT ![failed_node_id].status = "LOCKED"]
                     ELSE nodes1
    IN  IF Falsy(new_id) \/ new_id \in DOMAIN nodes
        THEN same @@ [ret |-> "False"]
        ELSE IF failed_node_id \notin DOMAIN radj1
        THEN [nodes |-> nodes1, adjacency |-> adj1, reverse_adjacency |-> radj1,
              ret |-> "raised"]
        ELSE [nodes |-> update_node_statuses(nodes2, radj2, completed_nodes),
              adjacency |-> adj1, reverse_adjacency |-> radj2, ret |-> "True"]

inject_remedial_node(failed_node_id, remedial_data) ==
    LET r == InjectResult(failed_node_id, remedial_data) IN
    /\ nodes' = r.nodes
    /\ adjacency' = r.adjacency
    /\ reverse_adjacency' = r.reverse_adjacency
    /\ call' = [op |-> "inject_remedial_node", ret |-> r.ret]
    /\ UNCHANGED <<completed_nodes, topic, context, graph_data>>

Range(f) == {f[i] : i \in DOMAIN f}

\* list(a_set): the elements of S once each, in any order
Listings(S) == {l \in [1..Cardinality(S) -> S] : Range(l) = S}

\* serialize, with listing the order list(self.completed_nodes) produced
serialize(listing) ==
    [nodes |-> nodes, adjacency |-> adjacency,
     reverse_adjacency |-> reverse_adjacency,
     completed_nodes |-> listing, topic |-> topic, context |-> context]

\* deserialize reading the completed ids under a key the document does not have
deserialize_wrong_key(data) ==
    LET comp == Range(Get(data, "completed", <<>>)) IN
    [nodes |-> update_node_statuses(Get(data, "nodes", <<>>),
                                    Get(data, "reverse_adjacency", <<>>), comp),
     adjacency |-> Get(data, "adjacency", <<>>),
     reverse_adjacency |-> Get(data, "reverse_adjacency", <<>>),
     completed_nodes |-> comp,
     topic |-> Get(data, "topic", NoneVal),
     context |-> Get(data, "context", NoneVal)]

\* deserialize: the fields of the manager it returns
deserialize(data) ==
    LET comp == Range(Get(data, "completed_nodes", <<>>)) IN
    [nodes |-> update_node_statuses(Get(data, "nodes", <<>>),
                                    Get(data, "reverse_adjacency", <<>>), comp),
     adjacency |-> Get(data, "adjacency", <<>>),
     reverse_adjacency |-> Get(data, "reverse_adjacency", <<>>),
     completed_nodes |-> comp,
     topic |-> Get(data, "topic", NoneVal),
     context |-> Get(data, "context", NoneVal)]

\* the manager replaced by deserialize(serialize()) of itself
restore ==
    \E listing \in Listings(completed_nodes) :
        LET m == deserialize(serialize(listing)) IN
        /\ nodes' = m.nodes
        /\ adjacency' = m.adjacency
        /\ reverse_adjacency' = m.reverse_adjacency
        /\ completed_nodes' = m.completed_nodes
        /\ topic' = m.topic
        /\ context' = m.context
        /\ call' = [op |-> "deserialize", ret |-> "None"]
        /\ UNCHANGED graph_data

\* _update_node_statuses called once more, with no mutation before it
recompute ==
    /\ nodes' = update_node_statuses(nodes, reverse_adjacency, completed_nodes)
    /\ call' = [op |-> "_update_node_statuses", ret |-> "None"]
    /\ UNCHANGED <<adjacency, reverse_adjacency, completed_nodes, topic, context,
                   graph_data>>

\* None where a dict is expected
NoneObj == [None |-> TRUE]

\* the empty dict
EmptyDict == <<>>

NoFuture == [state |-> "none", result |-> NoneObj]

NoFutures == [content |-> NoFuture, quiz |-> NoFuture, latex |-> NoFuture]

NoVerifier == [state |-> "none", input |-> NoneVal, result |-> NoneObj]

\* the manager after CurriculumManager() and the session state of app.py
InitSession ==
    /\ nodes = <<>>
    /\ adjacency = <<>>
    /\ reverse_adjacency = <<>>
    /\ completed_nodes = {}
    /\ topic = NoneVal
    /\ context = NoneVal
    /\ call = [op |-> "init", ret |-> "None"]
    /\ pc = "idle"
    /\ current_node = NoneVal
    /\ current_content = NoneObj
    /\ futures = NoFutures
    /\ verifier = NoVerifier
    /\ generation = "none"
    /\ submitted = NoneObj
    /\ persisted = NoneObj
    /\ save_outcome = "none"

Init ==
    /\ InitSession
    /\ db = FALSE
    /\ graph_data \in GraphProposals

TargetIds == NodeIds \cup {UnknownId, RemedialId}

Load == \E c \in Contexts : load_from_json("Graph Theory", c) /\ UNCHANGED <<app, store>>

MarkCompleted == \E n \in TargetIds : mark_completed(n) /\ UNCHANGED <<app, store>>

InjectRemedialNode ==
    \E f \in TargetIds, d \in RemedialData : inject_remedial_node(f, d) /\ UNCHANGED <<app, store>>

Restore == restore /\ UNCHANGED <<app, store>>

Recompute == recompute /\ UNCHANGED <<app, store>>

Next ==
    \/ Load
    \/ MarkCompleted
    \/ InjectRemedialNode
    \/ Restore
    \/ Recompute

Spec == Init /\ [][Next]_vars

-----------------------------------------------------------------------------
(* AgentCore: the payloads of the gateway and parallel_content_generation *)

MaxHist == 3

\* a typed failure of _generate_json
ErrorPayload == [error |-> "generation failed"]

\* a success payload of _generate_json without the fields its reader expects
MalformedPayload == [note |-> "n"]

LectureText == "Lecture"

Placeholder == "Error generating content."

NumQuestions == 10

QuizItem == [question |-> "Q", correct_option_index |-> 0]

ContentPayloads == {[content_text |-> LectureText], ErrorPayload, MalformedPayload}

QuizPayloads ==
    {[quiz_items |-> [i \in 1..NumQuestions |-> QuizItem]], ErrorPayload, MalformedPayload}

LatexPayloads == {[latex_equation |-> "E", reason |-> "why"], ErrorPayload}

\* risk scores in tenths: 0.4, 0.5 and 0.6
RiskScores == {4, 5, 6}

AuditPayloads ==
    {[risk_score |-> x, flagged_reason |-> "f"] : x \in RiskScores}
    \cup {ErrorPayload, MalformedPayload}

\* the entries get_ltm_history builds: data.get('node_id') and data.get('status')
HistoryEntries == [node : {"a", NoneVal}, status : {"CORRECT", "INCORRECT"}]

HistoryWindows == SeqsUpTo(HistoryEntries, MaxHist)

StrongTrackRecord == 3

\* the history summary of _content_agent_task, or "TypeError" when str.join
\* meets a failed node that is not a string
HistorySummary(ltm_history) ==
    LET failed_nodes  == SelectSeq(ltm_history, LAMBDA h : h.status = "INCORRECT")
        success_count == Len(SelectSeq(ltm_history, LAMBDA h : h.status = "CORRECT"))
    IN  IF ltm_history = <<>> THEN "none"
        ELSE IF failed_nodes # <<>>
        THEN IF \E i \in 1..Len(failed_nodes) : failed_nodes[i].node = NoneVal
             THEN "TypeError"
             ELSE "struggle"
        ELSE IF success_count >= StrongTrackRecord THEN "strong"
        ELSE "none"

\* executor.submit of the three tasks: the content task builds its prompt as
\* soon as it starts, and its future holds the exception if that raises
SubmitTasks(ltm_history) ==
    [content |-> IF HistorySummary(ltm_history) = "TypeError"
                 THEN [state |-> "raised", result |-> NoneObj]
                 ELSE [state |-> "running", result |-> NoneObj],
     quiz    |-> [state |-> "running", result |-> NoneObj],
     latex   |-> [state |-> "running", result |-> NoneObj]]

Finished(f) == f.state \in {"done", "raised"}

\* the dict parallel_content_generation returns
PipelineResult(content_result, quiz_result, latex_result, verifier_result) ==
    [lecture        |-> Get(content_result, "content_text", Placeholder),
     quiz_items     |-> Get(quiz_result, "quiz_items", <<>>),
     latex          |-> latex_result,
     verifier_audit |-> verifier_result]

\* scores are compared as fractions: correct / total >= pct / 100.  The float
\* quotient of two small integers compares with the literal 0.70 as the
\* fractions do.
PassThresholdPct == 70

EvaluatorThresholdPct == 70

\* the risk threshold of the evaluator, in tenths
RiskThreshold == 5

WarningPrefix == <<"[CONTENT WARNING] Review source material for: ">>

StartsWith(l, prefix) ==
    Len(l) >= Len(prefix) /\ SubSeq(l, 1, Len(prefix)) = prefix

\* is_pass = score_percentage >= PASS_THRESHOLD
IsPass(correct_count, num_questions) ==
    correct_count * 100 >= PassThresholdPct * num_questions

\* evaluator_agent with > in place of >= at line 207
evaluator_agent_strict(correct_count, num_questions, verifier_audit, payload) ==
    IF correct_count * 100 > EvaluatorThresholdPct * num_questions
    THEN [plan |-> NoneObj, requests |-> 0]
    ELSE LET risk_score == Get(verifier_audit, "risk_score", 0)
             remedial_prefix == IF risk_score > RiskThreshold THEN WarningPrefix ELSE <<>>
         IN  [plan |-> IF "remedial_node_label" \in DOMAIN payload
                       THEN [payload EXCEPT !.remedial_node_label = remedial_prefix \o @]
                       ELSE payload,
              requests |-> 1]

\* evaluator_agent with >= in place of > at line 216
evaluator_agent_risk_inclusive(correct_count, num_questions, verifier_audit, payload) ==
    IF correct_count * 100 >= EvaluatorThresholdPct * num_questions
    THEN [plan |-> NoneObj, requests |-> 0]
    ELSE LET risk_score == Get(verifier_audit, "risk_score", 0)
             remedial_prefix == IF risk_score >= RiskThreshold THEN WarningPrefix ELSE <<>>
         IN  [plan |-> IF "remedial_node_label" \in DOMAIN payload
                       THEN [payload EXCEPT !.remedial_node_label = remedial_prefix \o @]
                       ELSE payload,
              requests |-> 1]

\* evaluator_agent: the plan it returns and the number of requests it sent to
\* the gateway, payload being what _generate_json answers
evaluator_agent(correct_count, num_questions, verifier_audit, payload) ==
    IF correct_count * 100 >= EvaluatorThresholdPct * num_questions
    THEN [plan |-> NoneObj, requests |-> 0]
    ELSE LET risk_score == Get(verifier_audit, "risk_score", 0)
             remedial_prefix == IF risk_score > RiskThreshold THEN WarningPrefix ELSE <<>>
         IN  [plan |-> IF "remedial_node_label" \in DOMAIN payload
                       THEN [payload EXCEPT !.remedial_node_label = remedial_prefix \o @]
                       ELSE payload,
              requests |-> 1]

\* the answers of the gateway to the remedial-concept request for node_id
RemedialCandidates(node_id) ==
    {[remedial_node_id |-> i, remedial_node_label |-> Label("R"), reason |-> "why"] :
        i \in {RemedialId, node_id, ""}}
    \cup {[remedial_node_id |-> RemedialId, reason |-> "why"],
          [remedial_node_label |-> Label("R"), reason |-> "why"],
          ErrorPayload, EmptyDict}

\* truthiness of a dict or None
Truthy(d) == d # NoneObj /\ DOMAIN d # {}

-----------------------------------------------------------------------------
(* app.py: the handlers of the page *)

\* a graph proposal with every node of NodeIds and no edge twice
AppProposals ==
    {g \in GraphProposals : /\ Len(g.nodes) = Cardinality(NodeIds)
                            /\ Cardinality(Range(g.edges)) = Len(g.edges)}

InitApp ==
    /\ InitSession
    /\ graph_data \in AppProposals
    /\ db \in BOOLEAN

\* the outcomes of doc_ref.set: it stores the document or raises
SetOutcomes == {"ok", "failed"}

\* "if db: save_curriculum_state(db, user_id, curriculum)" at the end of a
\* handler, on the manager as the handler leaves it: nothing without a client,
\* an early return when the topic is empty, else the serialized manager is
\* stored, or the exception of a failing set is logged and swallowed
save_curriculum_state ==
    /\ db' = db
    /\ IF ~db
       THEN /\ save_outcome' = "none"
            /\ persisted' = persisted
       ELSE IF Falsy(topic')
       THEN /\ save_outcome' = "skipped"
            /\ persisted' = persisted
       ELSE \E o \in SetOutcomes, listing \in Listings(completed_nodes') :
               /\ save_outcome' = o
               /\ persisted' = IF o = "ok"
                               THEN [nodes |-> nodes', adjacency |-> adjacency',
                                     reverse_adjacency |-> reverse_adjacency',
                                     completed_nodes |-> listing,
                                     topic |-> topic', context |-> context']
                               ELSE persisted

\* render_initialization: the form is shown while the manager has no nodes
start_curriculum ==
    /\ pc = "idle"
    /\ DOMAIN nodes = {}
    /\ \E t \in Topics, c \in Contexts : load_from_json(t, c)
    /\ save_curriculum_state
    /\ UNCHANGED app

\* the Start Module button, up to the submission of the three tasks
start_module ==
    /\ pc = "idle"
    /\ DOMAIN nodes # {}
    /\ current_node = NoneVal
    /\ \E selected_node_id \in DOMAIN nodes, ltm_history \in HistoryWindows :
          /\ nodes[selected_node_id].status = "AVAILABLE"
          /\ current_node' = selected_node_id
          /\ futures' = SubmitTasks(ltm_history)
    /\ pc' = "parallel"
    /\ generation' = "running"
    /\ verifier' = NoVerifier
    /\ UNCHANGED <<mgr, store, graph_data, call, current_content, submitted>>

content_task_done ==
    /\ pc = "parallel"
    /\ futures.content.state = "running"
    /\ \E p \in ContentPayloads :
          futures' = [futures EXCEPT !.content = [state |-> "done", result |-> p]]
    /\ UNCHANGED <<mgr, store, graph_data, call, pc, current_node, current_content, verifier,
                   generation, submitted>>

quiz_task_done ==
    /\ pc = "parallel"
    /\ futures.quiz.state = "running"
    /\ \E p \in QuizPayloads :
          futures' = [futures EXCEPT !.quiz = [state |-> "done", result |-> p]]
    /\ UNCHANGED <<mgr, store, graph_data, call, pc, current_node, current_content, verifier,
                   generation, submitted>>

latex_task_done ==
    /\ pc = "parallel"
    /\ futures.latex.state = "running"
    /\ \E p \in LatexPayloads :
          futures' = [futures EXCEPT !.latex = [state |-> "done", result |-> p]]
    /\ UNCHANGED <<mgr, store, graph_data, call, pc, current_node, current_content, verifier,
                   generation, submitted>>

\* what follows the three result() calls and the exit of the with block: the
\* exception of the content task leaves the handler, or the audit is requested
AfterJoin ==
    IF futures.content.state = "raised"
    THEN /\ generation' = "raised"
         /\ pc' = "idle"
         /\ futures' = NoFutures
         /\ UNCHANGED verifier
    ELSE /\ verifier' = [state |-> "running",
                         input |-> Get(futures.content.result, "content_text", ""),
                         result |-> NoneObj]
         /\ pc' = "auditing"
         /\ UNCHANGED <<futures, generation>>

\* the join waiting for the content task alone
join_content_only ==
    /\ pc = "parallel"
    /\ Finished(futures.content)
    /\ AfterJoin
    /\ UNCHANGED <<mgr, store, graph_data, call, current_node, current_content, submitted>>

\* lines 181-186 of agent_core.py
join ==
    /\ pc = "parallel"
    /\ Finished(futures.content) /\ Finished(futures.quiz) /\ Finished(futures.latex)
    /\ AfterJoin
    /\ UNCHANGED <<mgr, store, graph_data, call, current_node, current_content, submitted>>

\* the audit answers, the bundle is returned and stored
audit_done ==
    /\ pc = "auditing"
    /\ \E p \in AuditPayloads :
          /\ verifier' = [verifier EXCEPT !.state = "done", !.result = p]
          /\ current_content' = PipelineResult(futures.content.result,
                                               futures.quiz.result,
                                               futures.latex.result, p)
    /\ generation' = "returned"
    /\ futures' = NoFutures
    /\ pc' = "idle"
    /\ UNCHANGED <<mgr, store, graph_data, call, current_node, submitted>>

\* the numbers of correct answers a submission is tried with: none, all, and
\* those within one answer of the pass mark
CorrectCounts(num_questions) ==
    {0, num_questions} \cup
    {k \in 0..num_questions :
        /\ (k + 1) * 100 >= PassThresholdPct * num_questions
        /\ (k - 1) * 100 < PassThresholdPct * num_questions}

\* Submit Final Quiz, lines 350-370: the score, is_pass and the evaluator
submit_quiz ==
    /\ pc = "idle"
    /\ current_node # NoneVal
    /\ current_content # NoneObj
    /\ LET quiz_items     == Get(current_content, "quiz_items", <<>>)
           num_questions  == Len(quiz_items)
           verifier_audit == Get(current_content, "verifier_audit", EmptyDict)
       IN  /\ num_questions > 0
           /\ \E correct_count \in CorrectCounts(num_questions),
                 payload \in RemedialCandidates(current_node) :
                 LET e == evaluator_agent(correct_count, num_questions,
                                          verifier_audit, payload)
                 IN  submitted' = [correct_count |-> correct_count,
                                   num_questions |-> num_questions,
                                   is_pass |-> IsPass(correct_count, num_questions),
                                   verifier_audit |-> verifier_audit,
                                   remedial_plan |-> e.plan,
                                   remedial_requests |-> e.requests]
    /\ pc' = "evaluated"
    /\ UNCHANGED <<mgr, store, graph_data, call, current_node, current_content, futures,
                   verifier, generation>>

\* lines 394-396
Cleanup ==
    /\ current_node' = NoneVal
    /\ current_content' = NoneObj

\* lines 372-398: pass, fail without injection, fail with injection; the
\* subscript of line 388 raises KeyError when the injected plan has no label
handle_results ==
    /\ pc = "evaluated"
    /\ IF submitted.is_pass
       THEN /\ mark_completed(current_node)
            /\ save_curriculum_state
            /\ Cleanup
       ELSE IF Truthy(submitted.remedial_plan)
               /\ "error" \notin DOMAIN submitted.remedial_plan
       THEN /\ inject_remedial_node(current_node, submitted.remedial_plan)
            /\ IF InjectResult(current_node, submitted.remedial_plan).ret = "True"
                  /\ "remedial_node_label" \notin DOMAIN submitted.remedial_plan
               THEN /\ UNCHANGED <<current_node, current_content, db, persisted>>
                    /\ save_outcome' = "none"
               ELSE /\ save_curriculum_state
                    /\ Cleanup
       ELSE /\ UNCHANGED <<mgr, graph_data, call>>
            /\ save_curriculum_state
            /\ Cleanup
    /\ pc' = "idle"
    /\ submitted' = NoneObj
    /\ UNCHANGED <<futures, verifier, generation>>

NextApp ==
    \/ start_curriculum
    \/ start_module
    \/ content_task_done
    \/ quiz_task_done
    \/ latex_task_done
    \/ join
    \/ audit_done
    \/ submit_quiz
    \/ handle_results

SpecApp == InitApp /\ [][NextApp]_vars

-----------------------------------------------------------------------------
(* Properties of the CurriculumManager, checked under Spec *)

Prereqs(n) == Range(Get(reverse_adjacency, n, <<>>))

\* the status the specification derives for node n
DerivedStatus(n) ==
    IF n \in completed_nodes THEN "COMPLETED"
    ELSE IF \A p \in Prereqs(n) : p \in completed_nodes THEN "AVAILABLE"
    ELSE "LOCKED"

StatusInvariant == \A n \in DOMAIN nodes : nodes[n].status = DerivedStatus(n)

\* C1: after every returned load, mark_completed, inject_remedial_node and
\* deserialize call each node's stored status is the derived one (COMPLETED if
\* completed, else AVAILABLE if all prerequisites are completed, else LOCKED),
\* and running the recompute again changes no status.
C1_StatusIsDerived ==
    call.ret # "raised" =>
        /\ StatusInvariant
        /\ update_node_statuses(nodes, reverse_adjacency, completed_nodes) = nodes

\* a restored manager holding a completed node, a node made available by its
\* completed prerequisites and a locked node
C1_Witness ==
    /\ call.op = "deserialize"
    /\ \E n \in DOMAIN nodes : nodes[n].status = "COMPLETED"
    /\ \E n \in DOMAIN nodes : nodes[n].status = "AVAILABLE" /\ Prereqs(n) # {}
    /\ \E n \in DOMAIN nodes : nodes[n].status = "LOCKED"

\* the step is a successful injection with target f, a node of the map
InjectedInto(f, d) ==
    /\ f \in DOMAIN nodes
    /\ inject_remedial_node(f, d)
    /\ call'.ret = "True"

\* C2 as claimed: after a successful injection into an existing node T, T is
\* LOCKED, whatever the state of T and of its other prerequisites.
C2_TargetAlwaysLocked ==
    [][\A f \in TargetIds, d \in RemedialData :
          InjectedInto(f, d) => nodes'[f].status = "LOCKED"]_vars

\* C2 amended: after a successful injection into an existing node T, T is LOCKED
\* if T is not in the completed set, whatever the state of its other
\* prerequisites; a T that is in the completed set stays COMPLETED.
C2_TargetLockedUnlessCompleted ==
    [][\A f \in TargetIds, d \in RemedialData :
          InjectedInto(f, d) =>
              nodes'[f].status = IF f \in completed_nodes THEN "COMPLETED"
                                 ELSE "LOCKED"]_vars

\* an injection has just locked a node whose other prerequisite is completed
C2_Witness ==
    /\ call = [op |-> "inject_remedial_node", ret |-> "True"]
    /\ \E f \in DOMAIN nodes :
          /\ nodes[f].status = "LOCKED"
          /\ Len(reverse_adjacency[f]) >= 2
          /\ reverse_adjacency[f][Len(reverse_adjacency[f])] = RemedialId
          /\ \A i \in 1..(Len(reverse_adjacency[f]) - 1) :
                reverse_adjacency[f][i] \in completed_nodes

RejectedId(d) ==
    LET new_id == Get(d, "remedial_node_id", NoneVal) IN
    Falsy(new_id) \/ new_id \in DOMAIN nodes

\* C3: inject_remedial_node with an empty, missing or already present new id
\* returns False and leaves nodes, both adjacency maps, every status and the
\* completed set as they were.
C3_RejectedInjectionIsNoOp ==
    [][\A f \in TargetIds, d \in RemedialData :
          (RejectedId(d) /\ inject_remedial_node(f, d)) =>
              (call'.ret = "False" /\ UNCHANGED mgr)]_vars

\* a rejected injection on a loaded graph with a completed node
C3_Witness ==
    /\ call = [op |-> "inject_remedial_node", ret |-> "False"]
    /\ DOMAIN nodes # {}
    /\ completed_nodes # {}

\* C4 as claimed: inject_remedial_node with a fresh non-empty new id and a
\* target that is not in the graph does not raise, records the edge in both
\* adjacency maps and leaves the status invariant true.
C4_UnknownTargetIsRecorded ==
    [][\A f \in TargetIds, d \in RemedialData :
          (~RejectedId(d) /\ f \notin DOMAIN nodes /\ inject_remedial_node(f, d)) =>
              /\ call'.ret # "raised"
              /\ \E i \in DOMAIN adjacency'[d.remedial_node_id] :
                    adjacency'[d.remedial_node_id][i] = f
              /\ f \in DOMAIN reverse_adjacency'
              /\ \E i \in DOMAIN reverse_adjacency'[f] :
                    reverse_adjacency'[f][i] = d.remedial_node_id
              /\ StatusInvariant']_vars

\* C5: for every reachable state, deserialize(serialize(state)) has the same
\* nodes (ids, labels and, after its recompute, statuses), the same forward and
\* reverse adjacency, completed set, topic and context, in whatever order
\* serialize lists the completed ids.
C5_RoundTrip ==
    \A listing \in Listings(completed_nodes) :
        LET m == deserialize(serialize(listing)) IN
        /\ m.nodes = nodes
        /\ m.adjacency = adjacency
        /\ m.reverse_adjacency = reverse_adjacency
        /\ m.completed_nodes = completed_nodes
        /\ m.topic = topic
        /\ m.context = context

\* a manager restored after a completion and an injection
C5_Witness ==
    /\ call.op = "deserialize"
    /\ Cardinality(completed_nodes) >= 2
    /\ RemedialId \in DOMAIN nodes
    /\ \E n \in DOMAIN nodes : nodes[n].status = "LOCKED"

-----------------------------------------------------------------------------
(* Properties of the pipeline and of the module attempt, checked under SpecApp *)

BundleSlots == {"lecture", "quiz_items", "latex", "verifier_audit"}

\* C6 as claimed: parallel_content_generation never fails as a whole, whatever
\* the four gateway calls answer and whatever history window it is given: it
\* returns a bundle with the four slots, the lecture being the placeholder and
\* quiz_items the empty list when their call failed.
C6_PipelineNeverFails ==
    [][/\ generation' # "raised"
       /\ (pc = "auditing" /\ pc' = "idle") =>
             /\ generation' = "returned"
             /\ DOMAIN current_content' = BundleSlots
             /\ "error" \in DOMAIN futures.content.result =>
                   current_content'.lecture = Placeholder
             /\ "error" \in DOMAIN futures.quiz.result =>
                   current_content'.quiz_items = <<>>]_vars

\* C7: the audit request starts only after the content, quiz and notation
\* tasks have all finished; its input is the text of the content task, or the
\* empty string if that task answered an error payload; and when the
\* remediation decision of an attempt is evaluated, the audit it reads is the
\* audit result of that attempt's pipeline, held in the stored bundle.
C7_AuditAfterJoin ==
    /\ pc = "parallel" => verifier.state = "none"
    /\ pc = "auditing" =>
          /\ \A t \in {"content", "quiz", "latex"} : futures[t].state = "done"
          /\ verifier.state = "running"
          /\ futures.content.result = ErrorPayload => verifier.input = ""
          /\ "content_text" \in DOMAIN futures.content.result =>
                verifier.input = futures.content.result.content_text
    /\ pc = "evaluated" =>
          /\ verifier.state = "done"
          /\ current_content.verifier_audit = verifier.result
          /\ submitted.verifier_audit = verifier.result

\* a failed attempt is being decided whose content task had answered an error
\* payload and whose audit carries a risk score
C7_Witness ==
    /\ pc = "evaluated"
    /\ ~submitted.is_pass
    /\ verifier.input = ""
    /\ current_content.lecture = Placeholder
    /\ "risk_score" \in DOMAIN submitted.verifier_audit

\* C8: an attempt with correct/total >= 0.70 takes the PASS branch and sends no
\* remedial-concept request; one with correct/total < 0.70 takes the FAIL branch
\* and sends exactly one; the caller's is_pass and the threshold test inside
\* evaluator_agent agree.
C8_ThresholdBranches ==
    [][pc = "evaluated" =>
          LET high == 10 * submitted.correct_count >= 7 * submitted.num_questions IN
          /\ submitted.is_pass <=> high
          /\ submitted.remedial_requests = IF high THEN 0 ELSE 1
          /\ submitted.is_pass <=> (submitted.remedial_plan = NoneObj)
          /\ high => /\ current_node \in completed_nodes'
                     /\ UNCHANGED <<adjacency, reverse_adjacency>>
          /\ ~high => completed_nodes' = completed_nodes]_vars

\* the attempts with 7 of 10 and with 6 of 10 correct answers are being decided
C8_Witness ==
    /\ pc = "evaluated"
    /\ submitted.num_questions = 10
    /\ \/ submitted.correct_count = 7 /\ submitted.is_pass
       \/ submitted.correct_count = 6 /\ ~submitted.is_pass

\* the risk score of an audit in tenths, 0.0 when it carries none
RiskOf(audit) == Get(audit, "risk_score", 0)

\* C9: on a FAIL attempt whose candidate carries a label, the label starts with
\* the content-warning prefix exactly if the audit of the same attempt has a
\* risk score above 0.5, and that label is the one the injected node gets.
C9_WarningPrefix ==
    [][(/\ pc = "evaluated"
        /\ ~submitted.is_pass
        /\ "remedial_node_label" \in DOMAIN submitted.remedial_plan) =>
          LET plan == submitted.remedial_plan IN
          /\ StartsWith(plan.remedial_node_label, WarningPrefix)
                <=> RiskOf(verifier.result) > 5
          /\ DOMAIN nodes' # DOMAIN nodes =>
                nodes'[plan.remedial_node_id].label = plan.remedial_node_label]_vars

\* a remedial node was injected under the warning prefix after an audit of 0.6
C9_Witness ==
    /\ pc = "idle"
    /\ call = [op |-> "inject_remedial_node", ret |-> "True"]
    /\ RemedialId \in DOMAIN nodes
    /\ StartsWith(nodes[RemedialId].label, WarningPrefix)
    /\ RiskOf(verifier.result) = 6

\* the candidate of the attempt is an error payload, has an empty or missing
\* id, or an id that is already a node
NoRemediation(plan) ==
    \/ ~Truthy(plan)
    \/ "error" \in DOMAIN plan
    \/ Falsy(Get(plan, "remedial_node_id", NoneVal))
    \/ Get(plan, "remedial_node_id", NoneVal) \in DOMAIN nodes

\* C10 as claimed: every submitted attempt on node T ends in exactly one of
\* PASS (T completed, no node added), FAIL_NO_REMEDIATION (graph and completed
\* set unchanged) and FAIL_WITH_REMEDIATION (one new node, a prerequisite of T,
\* and T LOCKED), and then the current attempt is cleared.
C10_AttemptReachesOutcome ==
    [][pc = "evaluated" =>
          LET T    == current_node
              plan == submitted.remedial_plan
          IN
          /\ current_node' = NoneVal
          /\ current_content' = NoneObj
          /\ pc' = "idle"
          /\ submitted.is_pass =>
                /\ completed_nodes' = completed_nodes \cup {T}
                /\ DOMAIN nodes' = DOMAIN nodes
          /\ (~submitted.is_pass /\ NoRemediation(plan)) => UNCHANGED mgr
          /\ (~submitted.is_pass /\ ~NoRemediation(plan)) =>
                /\ DOMAIN nodes' = DOMAIN nodes \cup {plan.remedial_node_id}
                /\ plan.remedial_node_id \in Range(reverse_adjacency'[T])
                /\ nodes'[T].status = "LOCKED"
                /\ completed_nodes' = completed_nodes]_vars

\* a success payload of the remedial-concept request that lacks its label or
\* its id
MalformedCandidate(plan) ==
    /\ Truthy(plan)
    /\ "error" \notin DOMAIN plan
    /\ \/ "remedial_node_label" \notin DOMAIN plan
       \/ "remedial_node_id" \notin DOMAIN plan

\* C11 as claimed: a success payload without its expected fields is handled
\* like a generation failure where it is consumed.  A quiz payload without
\* quiz_items gives the empty quiz; an audit without risk_score gives no
\* warning prefix; a remediation candidate without label or without id raises
\* nothing, the attempt is cleared, and the graph is not changed by an attempt
\* that is left unfinished.
C11_MalformedHandledAsFailure ==
    [][/\ (pc = "auditing" /\ pc' = "idle"
           /\ "quiz_items" \notin DOMAIN futures.quiz.result) =>
              current_content'.quiz_items = <<>>
       /\ (pc = "evaluated" /\ ~submitted.is_pass
           /\ "risk_score" \notin DOMAIN submitted.verifier_audit
           /\ "remedial_node_label" \in DOMAIN submitted.remedial_plan) =>
              ~StartsWith(submitted.remedial_plan.remedial_node_label, WarningPrefix)
       /\ (pc = "evaluated" /\ ~submitted.is_pass
           /\ MalformedCandidate(submitted.remedial_plan)) =>
              /\ current_node' = NoneVal
              /\ current_content' = NoneObj
              /\ pc' = "idle"
       /\ (pc = "evaluated"
           /\ <<nodes, adjacency, reverse_adjacency>>' #
                  <<nodes, adjacency, reverse_adjacency>>) =>
              current_node' = NoneVal]_vars

-----------------------------------------------------------------------------
(* Further properties of the CurriculumManager, checked under Spec *)

\* C12: across mark_completed and inject_remedial_node calls the completed set
\* only grows; mark_completed with an unknown id changes nothing, and with a
\* known id it adds exactly that id.
C12_CompletedOnlyGrows ==
    [][/\ call'.op \in {"mark_completed", "inject_remedial_node"} =>
             completed_nodes \subseteq completed_nodes'
       /\ \A n \in TargetIds :
             mark_completed(n) =>
                 IF n \in DOMAIN nodes
                 THEN completed_nodes' = completed_nodes \cup {n}
                 ELSE UNCHANGED mgr]_vars

\* a second id has just been added to the completed set of a graph that holds
\* an injected node
C12_Witness ==
    /\ call.op = "mark_completed"
    /\ Cardinality(completed_nodes) = 2
    /\ RemedialId \in DOMAIN nodes
    /\ RemedialId \notin completed_nodes

ProposedIds == {graph_data.nodes[i].id : i \in DOMAIN graph_data.nodes}

\* the number of entries of list l that equal x
Count(l, x) == Cardinality({i \in DOMAIN l : l[i] = x})

\* the edge keeps both endpoints among the proposed nodes
Retained(e) == e.source \in ProposedIds /\ e.target \in ProposedIds

\* C13: load replaces all prior state.  The completed set is empty, the node
\* map holds exactly the given nodes, an edge with an endpoint outside the given
\* nodes is in neither adjacency map and every other edge is in both, a node
\* without retained prerequisite is AVAILABLE and one with a retained
\* prerequisite is LOCKED.
C13_LoadReplacesState ==
    [][\A t \in Topics, c \in Contexts :
          load_from_json(t, c) =>
              /\ completed_nodes' = {}
              /\ topic' = t
              /\ context' = c
              /\ DOMAIN nodes' = ProposedIds
              /\ DOMAIN adjacency' = ProposedIds
              /\ DOMAIN reverse_adjacency' = ProposedIds
              /\ \A i \in DOMAIN graph_data.nodes :
                    nodes'[graph_data.nodes[i].id].label = graph_data.nodes[i].label
              /\ \A e \in EdgeRecs :
                    LET k == Count(graph_data.edges, e) IN
                    /\ e.source \in ProposedIds =>
                          Count(adjacency'[e.source], e.target)
                             = IF Retained(e) THEN k ELSE 0
                    /\ e.target \in ProposedIds =>
                          Count(reverse_adjacency'[e.target], e.source)
                             = IF Retained(e) THEN k ELSE 0
              /\ \A n \in ProposedIds :
                    nodes'[n].status =
                       IF \E i \in DOMAIN graph_data.edges :
                             Retained(graph_data.edges[i]) /\ graph_data.edges[i].target = n
                       THEN "LOCKED" ELSE "AVAILABLE"]_vars

\* a proposal has been loaded of which one edge was dropped and one retained
C13_Witness ==
    /\ call.op = "load_from_json"
    /\ \E i \in DOMAIN graph_data.edges : ~Retained(graph_data.edges[i])
    /\ \E i \in DOMAIN graph_data.edges : Retained(graph_data.edges[i])
    /\ \E n \in DOMAIN nodes : nodes[n].status = "LOCKED"
    /\ completed_nodes = {}

\* the nodes that depend directly on n
Dependents(n) == Range(Get(adjacency, n, <<>>))

\* the ids reached from the set S along at most k more edges
RECURSIVE ReachedFrom(_, _)
ReachedFrom(S, k) ==
    IF k = 0 THEN S
    ELSE ReachedFrom(S \cup UNION {Dependents(m) : m \in S}, k - 1)

\* n lies on a directed cycle of the graph (a self-loop included)
OnCycle(n) == n \in ReachedFrom(Dependents(n), Cardinality(DOMAIN nodes))

\* C14 as claimed: once a graph with a directed cycle is loaded, no node on the
\* cycle is AVAILABLE in any state reached by mark_completed and
\* inject_remedial_node calls.
C14_CycleNeverAvailable ==
    \A n \in DOMAIN nodes : OnCycle(n) => nodes[n].status # "AVAILABLE"

\* every node on a cycle is LOCKED
CycleLocked == \A n \in DOMAIN nodes : OnCycle(n) => nodes[n].status = "LOCKED"

\* the step is not a mark_completed of a node whose status is not AVAILABLE
CompletesOnlyAvailable ==
    \A n \in DOMAIN nodes :
        mark_completed(n) => nodes[n].status = "AVAILABLE"

\* C14 amended: every node on a cycle is LOCKED after load, and stays LOCKED
\* (so is never AVAILABLE) across inject_remedial_node calls and across
\* mark_completed calls that are applied to nodes whose status is AVAILABLE.
C14_CycleStaysLocked ==
    [][/\ call'.op = "load_from_json" => CycleLocked'
       /\ (CycleLocked /\ CompletesOnlyAvailable) => CycleLocked']_vars

\* a graph with a cycle, after an available node was completed and a node
\* injected, the nodes on the cycle being LOCKED
C14_Witness ==
    /\ call.op \in {"mark_completed", "inject_remedial_node"}
    /\ \E n \in DOMAIN nodes : OnCycle(n)
    /\ CycleLocked
    /\ completed_nodes # {}
    /\ RemedialId \in DOMAIN nodes

-----------------------------------------------------------------------------
(* Further properties of the page, checked under SpecApp *)

\* the stored document is the serialization of the manager, in some order of
\* the completed ids
SnapshotIsCurrent ==
    /\ persisted # NoneObj
    /\ persisted.nodes = nodes
    /\ persisted.adjacency = adjacency
    /\ persisted.reverse_adjacency = reverse_adjacency
    /\ persisted.completed_nodes \in Listings(completed_nodes)
    /\ persisted.topic = topic
    /\ persisted.context = context

\* C15 as claimed: with a storage client and no failing save, after the
\* initial load and after every attempt that changes the graph or the
\* completed set the stored document is the serialization of the manager,
\* whatever the topic of the session; a failing save is swallowed, the handler
\* ends normally and the manager keeps its new state.
C15_SnapshotFollowsMutation ==
    [][/\ (db /\ call'.op = "load_from_json" /\ save_outcome' # "failed") =>
             SnapshotIsCurrent'
       /\ (db /\ pc = "evaluated" /\ mgr' # mgr /\ save_outcome' # "failed") =>
             SnapshotIsCurrent'
       /\ (pc = "evaluated" /\ save_outcome' = "failed") =>
             /\ persisted' = persisted
             /\ current_node' = NoneVal
             /\ submitted.is_pass => current_node \in completed_nodes']_vars

Acyclic == \A n \in DOMAIN nodes : ~OnCycle(n)

\* what render_module_view lists for selection
available_nodes == {n \in DOMAIN nodes : nodes[n].status = "AVAILABLE"}

\* C16: for a graph loaded without cycles, with attempts started only on
\* AVAILABLE nodes, a node that is not COMPLETED implies a node that is
\* AVAILABLE; so "all modules completed" (no AVAILABLE node, no attempt in
\* progress) is shown only when every node is COMPLETED.
C16_Progress ==
    (DOMAIN nodes # {} /\ Acyclic) =>
        /\ (\E n \in DOMAIN nodes : nodes[n].status # "COMPLETED") =>
              available_nodes # {}
        /\ (available_nodes = {} /\ current_node = NoneVal) =>
              \A n \in DOMAIN nodes : nodes[n].status = "COMPLETED"

\* every module of an acyclic graph with a loaded edge and an injected node is
\* completed and no attempt is in progress
C16_Witness ==
    /\ DOMAIN nodes # {}
    /\ Acyclic
    /\ \E n \in DOMAIN nodes : Prereqs(n) # {}
    /\ RemedialId \in DOMAIN nodes
    /\ available_nodes = {}
    /\ current_node = NoneVal
    /\ pc = "idle"

\* C17 as claimed: when attempts start only on AVAILABLE nodes and the manager
\* is only changed for the node of the current attempt, every completed node
\* has all of its prerequisites completed.
C17_CompletedPrereqsCompleted ==
    \A n \in completed_nodes : Prereqs(n) \subseteq completed_nodes

-----------------------------------------------------------------------------
(* Recovery after remediation and adjacency consistency, checked under Spec *)

\* node t, not completed itself, has the remedial node among its
\* prerequisites and all of them are completed
Recovered(t) ==
    /\ t \notin completed_nodes
    /\ RemedialId \in Prereqs(t)
    /\ Prereqs(t) \subseteq completed_nodes

\* the step is an injection into the AVAILABLE node f whose candidate id is
\* already a node
RepeatedCandidate(f, d) ==
    /\ f \in DOMAIN nodes
    /\ nodes[f].status = "AVAILABLE"
    /\ "remedial_node_id" \in DOMAIN d
    /\ d.remedial_node_id \in DOMAIN nodes
    /\ inject_remedial_node(f, d)

\* C18 as claimed: after a successful inject_remedial_node(T, R), R is
\* AVAILABLE and T is LOCKED; once R and every other prerequisite of T are
\* completed, T is AVAILABLE again; a later injection into T whose candidate
\* id is R changes nothing and leaves T AVAILABLE.
C18_RecoveryAsClaimed ==
    [][/\ \A f \in TargetIds, d \in RemedialData :
             InjectedInto(f, d) =>
                 /\ nodes'[d.remedial_node_id].status = "AVAILABLE"
                 /\ nodes'[f].status = "LOCKED"
       /\ call'.op = "mark_completed" =>
             \A t \in DOMAIN nodes' : Recovered(t)' => nodes'[t].status = "AVAILABLE"
       /\ \A f \in TargetIds, d \in RemedialData :
             RepeatedCandidate(f, d) =>
                 /\ call'.ret = "False"
                 /\ UNCHANGED mgr
                 /\ nodes'[f].status = "AVAILABLE"]_vars

\* C18 amended: after a successful inject_remedial_node(T, R), R is AVAILABLE,
\* and T is LOCKED if T is not in the completed set (a completed T stays
\* COMPLETED); once R and every other prerequisite of such a T are completed,
\* T is AVAILABLE again; a later injection into T whose candidate id is R
\* changes nothing and leaves T AVAILABLE.
C18_RecoveryUnlessCompleted ==
    [][/\ \A f \in TargetIds, d \in RemedialData :
             InjectedInto(f, d) =>
                 /\ nodes'[d.remedial_node_id].status = "AVAILABLE"
                 /\ f \notin completed_nodes => nodes'[f].status = "LOCKED"
                 /\ f \in completed_nodes => nodes'[f].status = "COMPLETED"
       /\ call'.op = "mark_completed" =>
             \A t \in DOMAIN nodes' : Recovered(t)' => nodes'[t].status = "AVAILABLE"
       /\ \A f \in TargetIds, d \in RemedialData :
             RepeatedCandidate(f, d) =>
                 /\ call'.ret = "False"
                 /\ UNCHANGED mgr
                 /\ nodes'[f].status = "AVAILABLE"]_vars

\* a node with a loaded and a remedial prerequisite, both completed, is
\* AVAILABLE again and an injection with the same candidate id was rejected
C18_Witness ==
    /\ call = [op |-> "inject_remedial_node", ret |-> "False"]
    /\ \E t \in DOMAIN nodes :
          /\ Recovered(t)
          /\ Cardinality(Prereqs(t)) >= 2
          /\ nodes[t].status = "AVAILABLE"

\* C19 as claimed: in every state reached by load, mark_completed and
\* inject_remedial_node, whether the call returned or raised, t occurs in
\* adjacency[s] as often as s occurs in reverse_adjacency[t], and every node
\* id is a key of both maps.
C19_AdjacencyConsistent ==
    /\ \A n \in DOMAIN nodes : n \in DOMAIN adjacency /\ n \in DOMAIN reverse_adjacency
    /\ \A s \in DOMAIN adjacency \cup DOMAIN reverse_adjacency \cup TargetIds,
         t \in DOMAIN adjacency \cup DOMAIN reverse_adjacency \cup TargetIds :
          Count(Get(adjacency, s, <<>>), t) = Count(Get(reverse_adjacency, t, <<>>), s)

=============================================================================
